---- MODULE Spec2Model ----
(***************************************************************************)
(* Streaming chat orchestration of the assistant backend:                  *)
(*   backend/app/services/background_chat_service.py (BackgroundChatService)*)
(*   backend/app/api/chat_sqlite.py (websocket_chat, stop_chat_stream)      *)
(*   backend/app/services/ai_service_sqlite.py (chat_stream)               *)
(*                                                                         *)
(* Everything runs on one asyncio event loop and the database session is   *)
(* synchronous, so a coroutine runs atomically from one real suspension    *)
(* (await on the upstream stream, await websocket.send_text, await         *)
(* receive_text) to the next.  Every action below is one such run.         *)
(* task.cancel() only marks the task: CancelledError is thrown into the    *)
(* coroutine at the await it is suspended in, when the loop next steps it. *)
(*                                                                         *)
(* A message's text is the sequence of the deltas it is made of; the k-th  *)
(* content event of a job carries the delta k.                             *)
(*                                                                         *)
(* CancelledError is a BaseException (Python 3.8 and later), so neither    *)
(* the `except Exception` of broadcast_to_session nor that of chat_stream  *)
(* catches it.  A commit of a content event that fails twice is swallowed  *)
(* by the worker; the commits after it are taken to succeed.               *)
(*                                                                         *)
(* websocket_chat calls start_background_chat with one argument more than  *)
(* the method takes (InboundStartCall).  The job manager is also driven    *)
(* through the call its signature allows (Start), made at the same place   *)
(* of the handler.                                                         *)
(***************************************************************************)
EXTENDS Naturals, Sequences, FiniteSets

\* ---------------------------------------------------------------- bounds
\* Spec: the life of the jobs of a conversation, with stop and a process death
NumSessions == 1      \* conversations
NumConns    == 1      \* websocket connections
MaxInbound  == 2      \* inbound user messages handled in a run
MaxChunks   == 2      \* content events one upstream stream yields
MaxCrashes  == 1      \* process deaths in a run
\* SpecSupersede: three jobs started one after the other on a conversation
SupersedeInbound == 3
SupersedeChunks  == 1
\* SpecBroadcast: one job broadcasting to several subscribers
BroadcastConns   == 2
BroadcastInbound == 1
BroadcastChunks  == 1
\* SpecLive: two jobs of a conversation, under fair scheduling
LiveInbound == 2
LiveChunks  == 1
\* SpecAdapter: the tokens of one chunk's text
MaxText == 6
\* SpecStream: the lines of one upstream response
MaxLines == 3
\* SpecIsolation: the jobs of two conversations side by side
IsolationSessions == 2
IsolationInbound  == 2
IsolationChunks   == 1
\* SpecGateway: one connection handler and one job
GatewayInbound == 1
GatewayChunks  == 1

\* the history query's limit
HistoryLimit == 50

Max(a, b) == IF a >= b THEN a ELSE b

Sessions == 1..Max(NumSessions, IsolationSessions)
Conns    == 1..Max(NumConns, BroadcastConns)

VARIABLES
    messages,            \* chat_messages table: row id = index
    message_count,       \* chat_sessions.message_count
    running_tasks,       \* BackgroundChatService.running_tasks  (session -> task)
    active_connections,  \* BackgroundChatService.active_connections (session -> set)
    tasks,               \* the asyncio tasks of _background_chat_worker, by message id
    ws,                  \* the websocket_chat handler of each connection
    stop,                \* the stop_session_task call in progress, per session
    crashes,             \* process deaths so far
    scenario,            \* the sizes of the run (fixed by Init)
    adapter              \* chat_stream at one `data: ` line: the delta and the event

vars == <<messages, message_count, running_tasks, active_connections,
          tasks, ws, stop, crashes, scenario, adapter>>

\* ---------------------------------------------------------------- helpers
IsPrefix(a, b) == Len(a) <= Len(b) /\ SubSeq(b, 1, Len(a)) = a

\* d[k] = v on a dict
Put(d, k, v) == [x \in DOMAIN d \cup {k} |-> IF x = k THEN v ELSE d[x]]

\* del d[k] (k present)
Del(d, k) == [x \in DOMAIN d \ {k} |-> d[x]]

Min(S) == CHOOSE x \in S : \A y \in S : x <= y

MsgIds == 1..Len(messages)

\* (mutant) the rows of every conversation
MessagesOfAnySession(msgs, s, st) ==
    {m \in 1..Len(msgs) : msgs[m].status = st}

\* db.query(ChatMessage).filter(session_id == s, streaming_status == st)
MessagesWithStatus(msgs, s, st) ==
    {m \in 1..Len(msgs) : msgs[m].session = s /\ msgs[m].status = st}

\* ....first(): the row with the lowest id
FirstWithStatus(msgs, s, st) == Min(MessagesWithStatus(msgs, s, st))

SetStatus(msgs, m, st) == [msgs EXCEPT ![m].status = st]

\* ------------------------------------------------- Connection Multiplexer
Empty == [x \in {} |-> 0]

\* the connections subscribed to s (none when the key is absent)
Subscribers(ac, s) == IF s \in DOMAIN ac THEN ac[s] ELSE {}

\* add_connection
add_connection(ac, s, c) == Put(ac, s, Subscribers(ac, s) \cup {c})

\* (mutant) the conversation's key is dropped whoever is removed
RemoveDropsKey(ac, s, c) == IF s \in DOMAIN ac THEN Del(ac, s) ELSE ac

\* remove_connection: discard, and drop the key of a set that became empty
remove_connection(ac, s, c) ==
    IF s \in DOMAIN ac
    THEN IF ac[s] \ {c} = {} THEN Del(ac, s) ELSE Put(ac, s, ac[s] \ {c})
    ELSE ac

\* The local state of one broadcast_to_session call: the connections of the
\* copy still to be sent to and the set `disconnected`; and, as the record of
\* what the call did, the copy itself, how often each connection was sent the
\* event and the connections whose send raised.
NoBroadcast ==
    [todo |-> {}, disconnected |-> {}, snapshot |-> {},
     delivered |-> [c \in Conns |-> 0], failed |-> {}]

\* `for websocket in self.active_connections[session_id].copy()`
StartBroadcast(ac, s) ==
    [NoBroadcast EXCEPT !.todo = Subscribers(ac, s), !.snapshot = Subscribers(ac, s)]

\* one iteration of the loop: send_text to w succeeds, or raises and w is
\* added to `disconnected`
SendOne(bc, w, ok) ==
    [todo |-> bc.todo \ {w},
     disconnected |-> IF ok THEN bc.disconnected ELSE bc.disconnected \cup {w},
     snapshot |-> bc.snapshot,
     delivered |-> IF ok THEN [bc.delivered EXCEPT ![w] = @ + 1] ELSE bc.delivered,
     failed |-> IF ok THEN bc.failed ELSE bc.failed \cup {w}]

\* the states a broadcast can be suspended in after its next send; a broadcast
\* with nothing (left) to send to does not suspend
NextSends(bc) == {SendOne(bc, w, ok) : w \in bc.todo, ok \in BOOLEAN}

\* `for ws in disconnected: self.active_connections[session_id].discard(ws)`
\* raises KeyError when the key was removed while the broadcast was suspended
DiscardRaises(ac, s, bc) == bc.disconnected # {} /\ s \notin DOMAIN ac

\* (mutant) the failed connections are not removed
DiscardNothing(ac, s, bc) == ac

DiscardDisconnected(ac, s, bc) ==
    IF bc.disconnected # {} /\ s \in DOMAIN ac
    THEN Put(ac, s, ac[s] \ bc.disconnected)
    ELSE ac

\* ------------------------------------------------------------ Job Manager
NewTask(s) ==
    [session |-> s, pc |-> "created", must_cancel |-> FALSE,
     assistant_content |-> <<>>, bc |-> NoBroadcast, broadcast_log |-> <<>>]

Live(t) == tasks[t].pc \notin {"done", "killed"}

\* task.cancel(): a request; a finished task ignores it
Cancel(ts, t) ==
    IF ts[t].pc \in {"done", "killed"} THEN ts
    ELSE [ts EXCEPT ![t].must_cancel = TRUE]

\* the task has returned or raised: its frame is gone
Finished(task) ==
    [task EXCEPT !.pc = "done", !.must_cancel = FALSE,
                 !.assistant_content = <<>>, !.bc = NoBroadcast,
                 !.broadcast_log = <<>>]

\* finally: `if session_id in self.running_tasks: del self.running_tasks[session_id]`
WorkerFinally(rt, s) == IF s \in DOMAIN rt THEN Del(rt, s) ELSE rt

\* (mutant) the handler writes an empty text instead of the accumulated one
MarkInterruptedEmpty(msgs, m, acc) ==
    [msgs EXCEPT ![m].status = "interrupted", ![m].content = <<>>]

\* the writes of the CancelledError handler and of `except Exception`
MarkInterrupted(msgs, m, acc) ==
    [msgs EXCEPT ![m].status = "interrupted", ![m].content = acc]

\* the writes of the done branch
MarkCompleted(msgs, m, acc) ==
    [msgs EXCEPT ![m].status = "completed", ![m].content = acc]

\* (mutant) only the last delta is written
PersistLastDelta(msgs, m, acc) == [msgs EXCEPT ![m].content = <<acc[Len(acc)]>>]

\* assistant_msg.content = assistant_content; db.commit()
PersistContent(msgs, m, acc) == [msgs EXCEPT ![m].content = acc]

\* ------------------------------------------------------- Upstream Adapter
\* A text is a sequence of tokens: the two tags and the other characters.
OpenTag  == "<think>"
CloseTag == "</think>"
Chars    == {"A", "B", "C", OpenTag, CloseTag}

RECURSIVE TextsOfLen(_)
TextsOfLen(n) ==
    IF n = 0 THEN {<<>>}
    ELSE {Append(t, ch) : t \in TextsOfLen(n - 1), ch \in Chars}

Texts == UNION {TextsOfLen(n) : n \in 0..MaxText}

\* r'<think>(.*?)</think>' with re.DOTALL matches in txt at or after `from`:
\* from the leftmost <think> that has a </think> after it to the nearest
\* such </think>
HasMatch(txt, from) ==
    \E i \in from..Len(txt) : \E j \in (i + 1)..Len(txt) :
        txt[i] = OpenTag /\ txt[j] = CloseTag

MatchStart(txt, from) == Min({i \in from..Len(txt) : txt[i] = OpenTag})

MatchEnd(txt, from) ==
    Min({j \in (MatchStart(txt, from) + 1)..Len(txt) : txt[j] = CloseTag})

\* re.search(...).group(1)
SearchGroup(txt) == SubSeq(txt, MatchStart(txt, 1) + 1, MatchEnd(txt, 1) - 1)

\* re.sub(r'<think>.*?</think>', '', content): every match, left to right
RECURSIVE SubAll(_, _)
SubAll(txt, from) ==
    IF HasMatch(txt, from)
    THEN SubSeq(txt, from, MatchStart(txt, from) - 1) \o SubAll(txt, MatchEnd(txt, from) + 1)
    ELSE SubSeq(txt, from, Len(txt))

NoEvent == [emitted |-> FALSE, content |-> <<>>, thinking |-> <<>>, thinking_none |-> TRUE]

AdapterIdle ==
    [pc |-> "idle", content |-> <<>>, reasoning_content |-> <<>>, event |-> NoEvent]

\* what chat_stream yields for a delta with the fields content and
\* reasoning_content: chunk_thinking starts as None, takes a non-empty
\* reasoning_content, and is overwritten by the first tagged span of a
\* non-empty content, from which every tagged span is removed; an event is
\* yielded `if content or chunk_thinking`
ChunkEvent(content, reasoning_content) ==
    LET matched  == content # <<>> /\ HasMatch(content, 1)
        thinking == IF matched THEN SearchGroup(content) ELSE reasoning_content
        out      == IF matched THEN SubAll(content, 1) ELSE content
    IN IF out # <<>> \/ thinking # <<>>
       THEN [emitted |-> TRUE, content |-> out, thinking |-> thinking,
             thinking_none |-> ~matched /\ reasoning_content = <<>>]
       ELSE NoEvent

\* The upstream line stream.  A line is the terminal token, a chunk with a
\* text, a body that is not JSON, a body that is JSON but not a chunk object
\* (a number, null, a choice or a delta that is null), or a line without the
\* `data: ` marker.
DataDone        == "data: [DONE]"
DataInvalidJson == "data: {bad"
DataWrongShape  == "data: 123"
NoMarker        == ": keep-alive"
DataChunks      == {"data: A", "data: B"}
Lines == DataChunks \cup {DataDone, DataInvalidJson, DataWrongShape, NoMarker}

ChunkText(line) == IF line = "data: A" THEN <<"A">> ELSE <<"B">>

RECURSIVE StreamsOfLen(_)
StreamsOfLen(n) ==
    IF n = 0 THEN {<<>>}
    ELSE {Append(t, l) : t \in StreamsOfLen(n - 1), l \in Lines}

Streams == UNION {StreamsOfLen(n) : n \in 0..MaxLines}

DoneEv == [type |-> "done", content |-> <<>>]
ErrorEv == [type |-> "error", content |-> <<>>]
ContentEv(text) == [type |-> "content", content |-> ChunkEvent(text, <<>>).content]

\* the events chat_stream yields from line i on.  `[DONE]` yields done and
\* breaks; json.JSONDecodeError is caught and the loop continues; any other
\* exception (the TypeError or AttributeError of a body of the wrong shape,
\* an exception of the transport) reaches the outer `except Exception`, which
\* yields an error event; when aiter_lines is exhausted the generator ends.
RECURSIVE ChatStreamFrom(_, _, _)
ChatStreamFrom(lines, i, ending) ==
    IF i > Len(lines)
    THEN IF ending = "raised" THEN <<ErrorEv>> ELSE <<>>
    ELSE IF lines[i] = DataDone THEN <<DoneEv>>
    ELSE IF lines[i] = DataWrongShape THEN <<ErrorEv>>
    ELSE IF lines[i] \in DataChunks
    THEN <<ContentEv(ChunkText(lines[i]))>> \o ChatStreamFrom(lines, i + 1, ending)
    ELSE ChatStreamFrom(lines, i + 1, ending)

chat_stream(lines, ending) == ChatStreamFrom(lines, 1, ending)

InitWith(sc) ==
    /\ messages = <<>>
    /\ message_count = [s \in Sessions |-> 0]
    /\ running_tasks = Empty
    /\ active_connections = Empty
    /\ tasks = Empty
    /\ ws = [c \in Conns |-> [pc |-> "closed", session |-> 0, placeholder |-> 0]]
    /\ stop = [s \in Sessions |-> [pc |-> "idle", bc |-> NoBroadcast, result |-> "none"]]
    /\ crashes = 0
    /\ scenario = sc
    /\ adapter = AdapterIdle

Init ==
    InitWith([sessions |-> NumSessions, conns |-> NumConns, inbound |-> MaxInbound,
              chunks |-> MaxChunks, crashes |-> MaxCrashes])

\* -------------------------------------------------------- Session Gateway
NumPlaceholders == Cardinality({m \in MsgIds : messages[m].role = "assistant"})

UserMessage(s) ==
    [session |-> s, role |-> "user", status |-> "completed", content |-> <<0>>]

Placeholder(s) ==
    [session |-> s, role |-> "assistant", status |-> "streaming", content |-> <<>>]

\* a broadcast in progress still holds the websocket object c: a connection
\* opened meanwhile is another object
Referenced(c) ==
    \/ \E t \in DOMAIN tasks : c \in tasks[t].bc.todo \cup tasks[t].bc.disconnected
    \/ \E s \in Sessions : c \in stop[s].bc.todo \cup stop[s].bc.disconnected

\* the websocket object c of a handler that has ended is still in a
\* subscriber set: a connection opened meanwhile is another object
Stale(c) ==
    /\ ws[c].pc = "closed"
    /\ \E s \in Sessions : c \in Subscribers(active_connections, s)

\* websocket_chat up to its receive loop: accept, add_connection and the
\* streaming_resumed / streaming_interrupted notifications
Connect(c, s) ==
    /\ ws[c].pc = "closed"
    /\ c <= scenario.conns
    /\ s <= scenario.sessions
    /\ ~Referenced(c)
    /\ ~Stale(c)
    /\ active_connections' = add_connection(active_connections, s, c)
    /\ ws' = [ws EXCEPT ![c] = [pc |-> "receive", session |-> s, placeholder |-> 0]]
    /\ UNCHANGED <<messages, message_count, running_tasks, tasks, stop, crashes, scenario, adapter>>

\* a valid user message arrives: the user row and the placeholder row are
\* committed, then the handler is suspended in send_text(streaming_start)
Inbound(c) ==
    /\ ws[c].pc = "receive"
    /\ NumPlaceholders < scenario.inbound
    /\ LET s == ws[c].session
           p == Len(messages) + 2
       IN /\ messages' = Append(Append(messages, UserMessage(s)), Placeholder(s))
          /\ ws' = [ws EXCEPT ![c].pc = "send_start", ![c].placeholder = p]
    /\ UNCHANGED <<message_count, running_tasks, active_connections, tasks, stop, crashes, scenario, adapter>>

\* `.filter(session_id == s, streaming_status.in_(["completed", "interrupted"]))
\*  .order_by(timestamp.asc())`: the ids of the rows, oldest first, up to row n
RECURSIVE FinalizedRows(_, _, _)
FinalizedRows(msgs, s, n) ==
    IF n = 0 THEN <<>>
    ELSE IF msgs[n].session = s /\ msgs[n].status \in {"completed", "interrupted"}
    THEN Append(FinalizedRows(msgs, s, n - 1), n)
    ELSE FinalizedRows(msgs, s, n - 1)

\* `.limit(50).all()`
Limit(rows, n) == SubSeq(rows, 1, IF Len(rows) <= n THEN Len(rows) ELSE n)

\* the message_history of the handling of the user message of row u: the
\* rows of the query as {role, content}, then the user message appended.
\* `row` names the message an entry stands for.
message_history(msgs, s, u) ==
    LET rows == Limit(FinalizedRows(msgs, s, Len(msgs)), HistoryLimit)
    IN [i \in 1..Len(rows) |->
           [role |-> msgs[rows[i]].role, content |-> msgs[rows[i]].content,
            row |-> rows[i]]]
       \o <<[role |-> "user", content |-> msgs[u].content, row |-> u]>>

\* the rest of the handling: the history query, then
\* start_background_chat(session_id, user_id, message_history, assistant_msg.id, model_id)
\* which passes five arguments to a method of four parameters: TypeError,
\* caught by `except Exception`, which removes the connection and ends the handler
InboundStartCall(c) ==
    /\ ws[c].pc = "send_start"
    /\ active_connections' = remove_connection(active_connections, ws[c].session, c)
    /\ ws' = [ws EXCEPT ![c] = [pc |-> "closed", session |-> 0, placeholder |-> 0]]
    /\ UNCHANGED <<messages, message_count, running_tasks, tasks, stop, crashes, scenario, adapter>>

\* a message arrives whose user_id does not own the conversation (or the
\* conversation is gone): the handler sends the error 'Chat session not
\* found' and breaks out of its receive loop; the function returns
InboundSessionNotFound(c) ==
    /\ ws[c].pc = "receive"
    /\ ws' = [ws EXCEPT ![c] = [pc |-> "closed", session |-> 0, placeholder |-> 0]]
    /\ UNCHANGED <<messages, message_count, running_tasks, active_connections,
                   tasks, stop, crashes, scenario, adapter>>

\* the client goes away: receive_text (or the pending send) raises
\* WebSocketDisconnect and the handler removes the connection
Disconnect(c) ==
    /\ ws[c].pc \in {"receive", "send_start"}
    /\ active_connections' = remove_connection(active_connections, ws[c].session, c)
    /\ ws' = [ws EXCEPT ![c] = [pc |-> "closed", session |-> 0, placeholder |-> 0]]
    /\ UNCHANGED <<messages, message_count, running_tasks, tasks, stop, crashes, scenario, adapter>>

\* ---------------------------------------------------- start_background_chat
\* cancel the task recorded for the conversation, create the new task and
\* record it
start_background_chat(ts, rt, s, m) ==
    LET cancelled == IF s \in DOMAIN rt THEN Cancel(ts, rt[s]) ELSE ts
    IN [tasks |-> Put(cancelled, m, NewTask(s)), running_tasks |-> Put(rt, s, m)]

\* the call of the handler made with the arguments the method's signature
\* takes (session, user, history, placeholder): the job starts and the
\* handler goes back to receive_text
Start(c) ==
    /\ ws[c].pc = "send_start"
    /\ LET r == start_background_chat(tasks, running_tasks, ws[c].session,
                                      ws[c].placeholder)
       IN /\ tasks' = r.tasks
          /\ running_tasks' = r.running_tasks
    /\ ws' = [ws EXCEPT ![c].pc = "receive", ![c].placeholder = 0]
    /\ UNCHANGED <<messages, message_count, active_connections, stop, crashes, scenario, adapter>>

\* ------------------------------------------------- _background_chat_worker
\* broadcast_to_session returned to the worker: after a content event the
\* worker waits for the next chunk; after done or error it breaks out of the
\* loop and runs `finally`
AfterBroadcast(t, task, sendpc) ==
    IF sendpc = "send_content"
    THEN /\ tasks' = [tasks EXCEPT ![t] = [task EXCEPT !.pc = "chat_stream",
                                                       !.bc = NoBroadcast]]
         /\ UNCHANGED running_tasks
    ELSE /\ tasks' = [tasks EXCEPT ![t] = Finished(task)]
         /\ running_tasks' = WorkerFinally(running_tasks, task.session)

\* the worker calls broadcast_to_session: with no subscriber the call returns
\* at once, otherwise the worker is suspended in the first send_text
CallBroadcast(t, task, sendpc) ==
    IF Subscribers(active_connections, task.session) = {}
    THEN AfterBroadcast(t, task, sendpc)
    ELSE /\ \E b \in NextSends(StartBroadcast(active_connections, task.session)) :
               tasks' = [tasks EXCEPT ![t] = [task EXCEPT !.pc = sendpc, !.bc = b]]
         /\ UNCHANGED running_tasks

\* first step of the task: the message is found, chat_stream is entered and
\* the worker is suspended waiting for the upstream
WorkerRun(t) ==
    /\ t \in DOMAIN tasks
    /\ tasks[t].pc = "created"
    /\ ~tasks[t].must_cancel
    /\ tasks' = [tasks EXCEPT ![t].pc = "chat_stream"]
    /\ UNCHANGED <<messages, message_count, running_tasks, active_connections,
                   ws, stop, crashes, scenario, adapter>>

\* cancelled before its first step: CancelledError is thrown into a coroutine
\* that has not started, so no line of the worker runs, `finally` included
WorkerCancelledBeforeRun(t) ==
    /\ t \in DOMAIN tasks
    /\ tasks[t].pc = "created"
    /\ tasks[t].must_cancel
    /\ tasks' = [tasks EXCEPT ![t] = Finished(tasks[t])]
    /\ UNCHANGED <<messages, message_count, running_tasks, active_connections,
                   ws, stop, crashes, scenario, adapter>>

Suspended(t, pcs) ==
    /\ t \in DOMAIN tasks
    /\ tasks[t].pc \in pcs
    /\ ~tasks[t].must_cancel

\* a content chunk: accumulate, persist (the commit, or else its one retry,
\* succeeds: written; or both fail and the failure is swallowed), broadcast
ContentEvent(t, written) ==
    /\ Suspended(t, {"chat_stream"})
    /\ Len(tasks[t].assistant_content) < scenario.chunks
    /\ LET delta == Len(tasks[t].assistant_content) + 1
           acc == Append(tasks[t].assistant_content, delta)
           task == [tasks[t] EXCEPT !.assistant_content = acc,
                                    !.broadcast_log = Append(@, delta)]
       IN /\ messages' = IF written THEN PersistContent(messages, t, acc) ELSE messages
          /\ CallBroadcast(t, task, "send_content")
    /\ UNCHANGED <<message_count, active_connections, ws, stop, crashes, scenario, adapter>>

\* the done chunk: finalize, count the two messages, broadcast done, break
DoneEvent(t) ==
    /\ Suspended(t, {"chat_stream"})
    /\ messages' = MarkCompleted(messages, t, tasks[t].assistant_content)
    /\ message_count' = [message_count EXCEPT ![tasks[t].session] = @ + 2]
    /\ CallBroadcast(t, tasks[t], "send_done")
    /\ UNCHANGED <<active_connections, ws, stop, crashes, scenario, adapter>>

\* an error chunk (chat_stream turns every upstream failure into one):
\* only the status is written, broadcast error, break
ErrorEvent(t) ==
    /\ Suspended(t, {"chat_stream"})
    /\ messages' = SetStatus(messages, t, "interrupted")
    /\ CallBroadcast(t, tasks[t], "send_error")
    /\ UNCHANGED <<message_count, active_connections, ws, stop, crashes, scenario, adapter>>

\* the upstream closes without the terminal token: chat_stream ends, the
\* `async for` falls through and only `finally` runs
StreamEnd(t) ==
    /\ Suspended(t, {"chat_stream"})
    /\ tasks' = [tasks EXCEPT ![t] = Finished(tasks[t])]
    /\ running_tasks' = WorkerFinally(running_tasks, tasks[t].session)
    /\ UNCHANGED <<messages, message_count, active_connections, ws, stop,
                   crashes, scenario, adapter>>

\* the worker resumes in broadcast_to_session: the next send, or the end of
\* the loop, the discards and what follows the call.  A KeyError of the
\* discard is caught by `except Exception`, which marks the message
\* interrupted and broadcasts to a conversation that then has no subscriber.
WorkerSend(t) ==
    /\ Suspended(t, {"send_content", "send_done", "send_error"})
    /\ LET task == tasks[t] IN
       IF task.bc.todo # {}
       THEN /\ \E b \in NextSends(task.bc) : tasks' = [tasks EXCEPT ![t].bc = b]
            /\ UNCHANGED <<messages, running_tasks, active_connections>>
       ELSE IF DiscardRaises(active_connections, task.session, task.bc)
       THEN /\ messages' = MarkInterrupted(messages, t, task.assistant_content)
            /\ tasks' = [tasks EXCEPT ![t] = Finished(task)]
            /\ running_tasks' = WorkerFinally(running_tasks, task.session)
            /\ UNCHANGED active_connections
       ELSE /\ active_connections' =
                  DiscardDisconnected(active_connections, task.session, task.bc)
            /\ AfterBroadcast(t, task, task.pc)
            /\ UNCHANGED messages
    /\ UNCHANGED <<message_count, ws, stop, crashes, scenario, adapter>>

\* CancelledError is thrown at the await the worker is suspended in (a
\* broadcast in progress is abandoned): the handler marks the message
\* interrupted with the accumulated text, re-raises, `finally` runs
WorkerCancelled(t) ==
    /\ t \in DOMAIN tasks
    /\ tasks[t].pc \in {"chat_stream", "send_content", "send_done", "send_error"}
    /\ tasks[t].must_cancel
    /\ messages' = MarkInterrupted(messages, t, tasks[t].assistant_content)
    /\ tasks' = [tasks EXCEPT ![t] = Finished(tasks[t])]
    /\ running_tasks' = WorkerFinally(running_tasks, tasks[t].session)
    /\ UNCHANGED <<message_count, active_connections, ws, stop, crashes, scenario, adapter>>

\* -------------------------------------------------------- stop_session_task
\* `streaming_msg = ....first(); if streaming_msg: streaming_status = "interrupted"`
InterruptFirstStreaming(msgs, s) ==
    IF MessagesWithStatus(msgs, s, "streaming") = {} THEN msgs
    ELSE SetStatus(msgs, FirstWithStatus(msgs, s, "streaming"), "interrupted")

\* `del self.running_tasks[session_id]; return True`: KeyError when the
\* record is gone
StopRemoveRecord(rt, s) == IF s \in DOMAIN rt THEN Del(rt, s) ELSE rt

StopOwnedResult(rt, s) == IF s \in DOMAIN rt THEN "true" ELSE "KeyError"

Returned(s, r) ==
    stop' = [stop EXCEPT ![s] = [pc |-> "idle", bc |-> NoBroadcast, result |-> r]]

\* (mutant) the orphan branch taken for any message of the conversation
StopPathAnyMessage(rt, msgs, s) ==
    IF s \in DOMAIN rt THEN "owned"
    ELSE IF {m \in 1..Len(msgs) : msgs[m].session = s} # {} THEN "orphan"
    ELSE "none"

\* which branch the call takes: `if session_id in self.running_tasks`, else
\* `if streaming_msg`, else the final `return False`
StopPath(rt, msgs, s) ==
    IF s \in DOMAIN rt THEN "owned"
    ELSE IF MessagesWithStatus(msgs, s, "streaming") # {} THEN "orphan"
    ELSE "none"

\* the call up to its first suspension
StopCall(s) ==
    /\ stop[s].pc = "idle"
    /\ s <= scenario.sessions
    /\ LET path == StopPath(running_tasks, messages, s) IN
       IF path = "owned"
       THEN \* a record exists: cancel, mark the streaming row, broadcast stopped
            /\ tasks' = Cancel(tasks, running_tasks[s])
            /\ messages' = InterruptFirstStreaming(messages, s)
            /\ IF Subscribers(active_connections, s) = {}
               THEN /\ running_tasks' = StopRemoveRecord(running_tasks, s)
                    /\ Returned(s, StopOwnedResult(running_tasks, s))
               ELSE /\ \E b \in NextSends(StartBroadcast(active_connections, s)) :
                          stop' = [stop EXCEPT ![s] = [pc |-> "send_owned", bc |-> b,
                                                       result |-> "none"]]
                    /\ UNCHANGED running_tasks
       ELSE IF path = "orphan"
       THEN \* no record, an orphaned streaming row: mark it, broadcast stopped
            /\ messages' = InterruptFirstStreaming(messages, s)
            /\ IF Subscribers(active_connections, s) = {}
               THEN Returned(s, "true")
               ELSE \E b \in NextSends(StartBroadcast(active_connections, s)) :
                          stop' = [stop EXCEPT ![s] = [pc |-> "send_orphan", bc |-> b,
                                                       result |-> "none"]]
            /\ UNCHANGED <<tasks, running_tasks>>
       ELSE \* nothing to stop
            /\ Returned(s, "false")
            /\ UNCHANGED <<messages, tasks, running_tasks>>
    /\ UNCHANGED <<message_count, active_connections, ws, crashes, scenario, adapter>>

\* the call resumes in its broadcast: the next send, or the end of the
\* broadcast and of the call.  With a record the broadcast's exception is
\* caught and logged and the record is deleted; on the orphan path the
\* exception is caught by the outer handler and the call returns False.
StopSend(s) ==
    /\ stop[s].pc \in {"send_owned", "send_orphan"}
    /\ IF stop[s].bc.todo # {}
       THEN /\ \E b \in NextSends(stop[s].bc) : stop' = [stop EXCEPT ![s].bc = b]
            /\ UNCHANGED <<running_tasks, active_connections>>
       ELSE /\ active_connections' = DiscardDisconnected(active_connections, s, stop[s].bc)
            /\ IF stop[s].pc = "send_owned"
               THEN /\ running_tasks' = StopRemoveRecord(running_tasks, s)
                    /\ Returned(s, StopOwnedResult(running_tasks, s))
               ELSE /\ Returned(s, IF DiscardRaises(active_connections, s, stop[s].bc)
                                   THEN "false" ELSE "true")
                    /\ UNCHANGED running_tasks
    /\ UNCHANGED <<messages, message_count, tasks, ws, crashes, scenario, adapter>>

\* ------------------------------------------------------------------ crash
\* the process dies and is started again: the database is all that is left
Crash ==
    /\ crashes < scenario.crashes
    /\ crashes' = crashes + 1
    /\ running_tasks' = Empty
    /\ active_connections' = Empty
    /\ tasks' = [t \in DOMAIN tasks |->
                   IF Live(t) THEN [Finished(tasks[t]) EXCEPT !.pc = "killed"]
                   ELSE tasks[t]]
    /\ ws' = [c \in Conns |-> [pc |-> "closed", session |-> 0, placeholder |-> 0]]
    /\ stop' = [s \in Sessions |-> [pc |-> "idle", bc |-> NoBroadcast, result |-> "none"]]
    /\ UNCHANGED <<messages, message_count, scenario, adapter>>

Gateway ==
    \/ \E c \in Conns, s \in Sessions : Connect(c, s)
    \/ \E c \in Conns : Inbound(c)
    \/ \E c \in Conns : InboundStartCall(c)
    \/ \E c \in Conns : Disconnect(c)
    \/ \E c \in Conns : Start(c)

Worker ==
    \/ \E t \in MsgIds : WorkerRun(t)
    \/ \E t \in MsgIds : WorkerCancelledBeforeRun(t)
    \/ \E t \in MsgIds, written \in BOOLEAN : ContentEvent(t, written)
    \/ \E t \in MsgIds : DoneEvent(t)
    \/ \E t \in MsgIds : ErrorEvent(t)
    \/ \E t \in MsgIds : StreamEnd(t)
    \/ \E t \in MsgIds : WorkerSend(t)
    \/ \E t \in MsgIds : WorkerCancelled(t)

Stop ==
    \/ \E s \in Sessions : StopCall(s)
    \/ \E s \in Sessions : StopSend(s)

NextNoCrash == Gateway \/ Worker \/ Stop

Next == NextNoCrash \/ Crash

Spec == Init /\ [][Next]_vars

InitSupersede ==
    InitWith([sessions |-> NumSessions, conns |-> NumConns,
              inbound |-> SupersedeInbound, chunks |-> SupersedeChunks,
              crashes |-> 0])

SpecSupersede == InitSupersede /\ [][NextNoCrash]_vars

InitBroadcast ==
    InitWith([sessions |-> NumSessions, conns |-> BroadcastConns,
              inbound |-> BroadcastInbound, chunks |-> BroadcastChunks,
              crashes |-> 0])

SpecBroadcast == InitBroadcast /\ [][NextNoCrash]_vars

\* SpecLive: two jobs of a conversation under the scheduling of the event
\* loop.  A task that can run is run: the first step of a worker, the
\* delivery of a CancelledError, the return of a send_text (with its result
\* or its exception) in the worker, in stop and in the gateway's handler.  The
\* upstream stream yields its next event or ends.  What clients do (connect,
\* send a message, disconnect, call stop) is not forced.
InitLive ==
    InitWith([sessions |-> NumSessions, conns |-> NumConns, inbound |-> LiveInbound,
              chunks |-> LiveChunks, crashes |-> 0])

WorkerScheduled(t) ==
    \/ WorkerRun(t)
    \/ WorkerCancelledBeforeRun(t)
    \/ WorkerSend(t)
    \/ WorkerCancelled(t)

UpstreamYields(t) ==
    \/ \E written \in BOOLEAN : ContentEvent(t, written)
    \/ DoneEvent(t)
    \/ ErrorEvent(t)
    \/ StreamEnd(t)

Fairness ==
    /\ \A t \in 1..(2 * LiveInbound) : WF_vars(WorkerScheduled(t))
    /\ \A t \in 1..(2 * LiveInbound) : WF_vars(UpstreamYields(t))
    /\ \A s \in Sessions : WF_vars(StopSend(s))
    /\ \A c \in Conns : WF_vars(Start(c) \/ InboundStartCall(c))

SpecLive == InitLive /\ [][NextNoCrash]_vars /\ Fairness

\* SpecGateway: the handler of a connection with every way it ends
InitGateway ==
    InitWith([sessions |-> NumSessions, conns |-> NumConns, inbound |-> GatewayInbound,
              chunks |-> GatewayChunks, crashes |-> 0])

NextGateway == NextNoCrash \/ \E c \in Conns : InboundSessionNotFound(c)

SpecGateway == InitGateway /\ [][NextGateway]_vars

InitIsolation ==
    InitWith([sessions |-> IsolationSessions, conns |-> NumConns,
              inbound |-> IsolationInbound, chunks |-> IsolationChunks,
              crashes |-> 0])

SpecIsolation == InitIsolation /\ [][NextNoCrash]_vars

\* SpecAdapter: chat_stream on one `data: ` line whose delta is any text of
\* at most MaxText tokens, with or without a reasoning_content field
InitAdapter ==
    /\ messages = <<>>
    /\ message_count = [s \in Sessions |-> 0]
    /\ running_tasks = Empty
    /\ active_connections = Empty
    /\ tasks = Empty
    /\ ws = [c \in Conns |-> [pc |-> "closed", session |-> 0, placeholder |-> 0]]
    /\ stop = [s \in Sessions |-> [pc |-> "idle", bc |-> NoBroadcast, result |-> "none"]]
    /\ crashes = 0
    /\ scenario = [sessions |-> 0, conns |-> 0, inbound |-> 0, chunks |-> 0,
                   crashes |-> 0]
    /\ \E txt \in Texts : \E r \in {<<>>, <<"R">>} :
          adapter = [pc |-> "line", content |-> txt, reasoning_content |-> r,
                     event |-> NoEvent]

\* the line is parsed and its event, if any, is yielded
AdapterChunk ==
    /\ adapter.pc = "line"
    /\ adapter' = [adapter EXCEPT
                      !.pc = "yielded",
                      !.event = ChunkEvent(adapter.content, adapter.reasoning_content)]
    /\ UNCHANGED <<messages, message_count, running_tasks, active_connections,
                   tasks, ws, stop, crashes, scenario>>

SpecAdapter == InitAdapter /\ [][AdapterChunk]_vars

\* SpecStream: chat_stream on any line stream of at most MaxLines lines that
\* the transport then closes, or breaks with an exception
InitStream ==
    /\ messages = <<>>
    /\ message_count = [s \in Sessions |-> 0]
    /\ running_tasks = Empty
    /\ active_connections = Empty
    /\ tasks = Empty
    /\ ws = [c \in Conns |-> [pc |-> "closed", session |-> 0, placeholder |-> 0]]
    /\ stop = [s \in Sessions |-> [pc |-> "idle", bc |-> NoBroadcast, result |-> "none"]]
    /\ crashes = 0
    /\ scenario = [sessions |-> 0, conns |-> 0, inbound |-> 0, chunks |-> 0,
                   crashes |-> 0]
    /\ \E ls \in Streams : \E e \in {"closed", "raised"} :
          adapter = [pc |-> "request", lines |-> ls, ending |-> e, events |-> <<>>]

\* the generator is run to its end
AdapterStream ==
    /\ adapter.pc = "request"
    /\ adapter' = [adapter EXCEPT
                      !.pc = "exhausted",
                      !.events = chat_stream(adapter.lines, adapter.ending)]
    /\ UNCHANGED <<messages, message_count, running_tasks, active_connections,
                   tasks, ws, stop, crashes, scenario>>

SpecStream == InitStream /\ [][AdapterStream]_vars

\* ================================================================ claims

StreamingIn(s) == {m \in MsgIds : messages[m].session = s /\ messages[m].status = "streaming"}

\* C1: in every reachable state a conversation has at most one message whose
\* status is `streaming`.
C1_AtMostOneStreaming ==
    \A s \in Sessions : Cardinality(StreamingIn(s)) <= 1

\* C2: when start is called for a conversation whose recorded job's message is
\* still `streaming`, that message is `interrupted` once the call has returned
\* (the second job never runs beside a first one that is still `streaming`).
C2_SupersededFinalizedFirst ==
    [][\A c \in Conns :
          (/\ Start(c)
           /\ ws[c].session \in DOMAIN running_tasks
           /\ messages[running_tasks[ws[c].session]].status = "streaming")
          => messages'[running_tasks[ws[c].session]].status = "interrupted"]_vars

\* C3: a status that has left `streaming` never changes again.
C3_TerminalStatusIsFinal ==
    [][\A m \in MsgIds :
          messages[m].status # "streaming"
          => messages'[m].status = messages[m].status]_vars

\* the jobs of s that are running and were not cancelled
RunningUncancelled(s) ==
    {t \in DOMAIN tasks : tasks[t].session = s /\ Live(t) /\ ~tasks[t].must_cancel}

\* C4: a conversation never has two running jobs that were not cancelled.
C4_OneUncancelledJob ==
    \A s \in Sessions : Cardinality(RunningUncancelled(s)) <= 1

\* C5: a stop call that found an ownership record returns true and leaves the
\* conversation without a record.
C5_StopWithRecordReturnsTrue ==
    [][\A s \in Sessions :
          (/\ \/ StopCall(s) /\ s \in DOMAIN running_tasks
              \/ StopSend(s) /\ stop[s].pc = "send_owned"
           /\ stop'[s].pc = "idle")
          => /\ stop'[s].result = "true"
             /\ s \notin DOMAIN running_tasks']_vars

\* C6: after a process death, stop on a conversation without an ownership
\* record sets the `streaming` message of the job that was killed to
\* `interrupted`, keeps its content, and returns true.
C6_StopAfterCrashInterruptsKilledJob ==
    [][\A s \in Sessions : \A m \in MsgIds :
          (/\ StopCall(s)
           /\ s \notin DOMAIN running_tasks
           /\ m \in DOMAIN tasks
           /\ tasks[m].pc = "killed"
           /\ messages[m].session = s
           /\ messages[m].status = "streaming")
          => /\ messages'[m].status = "interrupted"
             /\ messages'[m].content = messages[m].content
             /\ stop'[s].pc = "idle" => stop'[s].result = "true"]_vars

\* C7: stop on a conversation with no ownership record and no `streaming`
\* message returns false at once, writes no message, cancels no task and
\* starts no broadcast.
C7_StopNothingReturnsFalse ==
    [][\A s \in Sessions :
          (/\ StopCall(s)
           /\ s \notin DOMAIN running_tasks
           /\ \A m \in MsgIds :
                 messages[m].session = s => messages[m].status # "streaming")
          => /\ stop'[s] = [pc |-> "idle", bc |-> NoBroadcast, result |-> "false"]
             /\ messages' = messages
             /\ tasks' = tasks
             /\ active_connections' = active_connections]_vars

\* a stop of the conversation has returned false, and the conversation has a
\* subscriber and a completed assistant message
C7_Witness ==
    \E s \in Sessions :
        /\ stop[s].result = "false"
        /\ Subscribers(active_connections, s) # {}
        /\ \E m \in MsgIds : /\ messages[m].session = s
                              /\ messages[m].role = "assistant"
                              /\ messages[m].status = "completed"

\* C8: every write of a message's content extends the content that was
\* persisted before it.
C8_ContentNeverShrinks ==
    [][\A m \in MsgIds :
          IsPrefix(messages[m].content, messages'[m].content)]_vars

\* a job has ended `interrupted` (upstream error or cancellation) with the
\* two deltas it received persisted
C8_Witness ==
    \E m \in MsgIds :
        /\ m \in DOMAIN tasks
        /\ tasks[m].pc = "done"
        /\ messages[m].status = "interrupted"
        /\ messages[m].content = <<1, 2>>

\* C9: the deltas broadcast for a message are a prefix of its persisted
\* content.
C9_BroadcastIsPersisted ==
    \A t \in DOMAIN tasks : IsPrefix(tasks[t].broadcast_log, messages[t].content)

\* what a broadcast that ends with the subscriber set it started with has done
BroadcastOutcome(bc, after) ==
    /\ after = bc.snapshot \ bc.failed
    /\ \A c \in Conns :
          bc.delivered[c] = IF c \in bc.snapshot \ bc.failed THEN 1 ELSE 0

\* C10: a broadcast over the subscriber set S whose sends fail on F, with the
\* set still S when it ends, has sent the event once to each connection of
\* S \ F and leaves the set S \ F.
C10_BroadcastDelivery ==
    [][/\ \A t \in DOMAIN tasks :
            (/\ WorkerSend(t)
             /\ tasks[t].bc.todo = {}
             /\ Subscribers(active_connections, tasks[t].session) = tasks[t].bc.snapshot)
            => BroadcastOutcome(tasks[t].bc,
                                Subscribers(active_connections', tasks[t].session))
       /\ \A s \in Sessions :
            (/\ StopSend(s)
             /\ stop[s].bc.todo = {}
             /\ Subscribers(active_connections, s) = stop[s].bc.snapshot)
            => BroadcastOutcome(stop[s].bc, Subscribers(active_connections', s))]_vars

\* a worker's broadcast to two subscribers has sent to both, one send failed,
\* and the subscriber set is the one it started with
C10_Witness ==
    \E t \in DOMAIN tasks :
        /\ tasks[t].pc \in {"send_content", "send_done", "send_error"}
        /\ tasks[t].bc.todo = {}
        /\ Cardinality(tasks[t].bc.snapshot) = 2
        /\ Cardinality(tasks[t].bc.failed) = 1
        /\ Subscribers(active_connections, tasks[t].session) = tasks[t].bc.snapshot

\* C11: a broadcast never raises to its caller and leaves the message of the
\* job that called it as it found it, whatever connections subscribe or
\* unsubscribe while it is suspended in a send.
C11_BroadcastNeverRaises ==
    [][/\ \A t \in DOMAIN tasks :
            (WorkerSend(t) /\ tasks[t].bc.todo = {})
            => /\ ~DiscardRaises(active_connections, tasks[t].session, tasks[t].bc)
               /\ messages'[t] = messages[t]
       /\ \A s \in Sessions :
            (StopSend(s) /\ stop[s].bc.todo = {})
            => ~DiscardRaises(active_connections, s, stop[s].bc)]_vars

\* C12: a disconnect changes nothing but the subscriber set, and a job whose
\* broadcast had subscribers goes on as a job with none does: at the end of
\* the broadcast every message is as the handling of the event left it, after
\* a content event the job waits for the next chunk, after done or error it
\* has ended.
C12_DisconnectOnlyUnsubscribes ==
    [][/\ \A c \in Conns :
            Disconnect(c) => UNCHANGED <<messages, message_count, running_tasks, tasks>>
       /\ \A t \in DOMAIN tasks :
            (WorkerSend(t) /\ tasks[t].bc.todo = {})
            => /\ messages' = messages
               /\ tasks'[t].pc = IF tasks[t].pc = "send_content"
                                 THEN "chat_stream" ELSE "done"]_vars

\* what websocket_chat sends to a connection it has just accepted: the first
\* `streaming` row of the conversation, if any, as streaming_resumed
streaming_resumed(msgs, s) ==
    IF MessagesWithStatus(msgs, s, "streaming") = {}
    THEN [message_id |-> 0, content |-> <<>>]
    ELSE [message_id |-> FirstWithStatus(msgs, s, "streaming"),
          content |-> msgs[FirstWithStatus(msgs, s, "streaming")].content]

\* C13: a connection opened on a conversation whose job is running with its
\* message `streaming` is sent streaming_resumed for that message, with all
\* the deltas the job has persisted.
C13_ResumedWithPersistedContent ==
    [][\A c \in Conns : \A s \in Sessions : \A t \in DOMAIN tasks :
          (/\ Connect(c, s)
           /\ tasks[t].session = s
           /\ Live(t)
           /\ ~tasks[t].must_cancel
           /\ messages[t].status = "streaming")
          => streaming_resumed(messages, s) =
                [message_id |-> t, content |-> messages[t].content]]_vars

\* the text made of the first k deltas
Deltas(k) == [i \in 1..k |-> i]

\* C14: a content event whose write succeeds leaves the deltas received so
\* far as the persisted content; the done event finds no broadcast of the job
\* in progress and every delta broadcast, writes `completed` with all the
\* deltas and adds 2 to the conversation's message_count, which nothing else
\* changes; and the job whose done broadcast ends without an exception ends
\* `completed` with that content.
C14_DeltasThenDone ==
    [][/\ \A t \in DOMAIN tasks :
            /\ ContentEvent(t, TRUE)
               => messages'[t].content = Deltas(Len(tasks[t].assistant_content) + 1)
            /\ DoneEvent(t)
               => /\ tasks[t].bc = NoBroadcast
                  /\ tasks[t].broadcast_log = tasks[t].assistant_content
                  /\ messages'[t].status = "completed"
                  /\ messages'[t].content = Deltas(Len(tasks[t].assistant_content))
                  /\ message_count'[tasks[t].session] =
                        message_count[tasks[t].session] + 2
            /\ (/\ WorkerSend(t)
                /\ tasks[t].pc = "send_done"
                /\ tasks'[t].pc = "done"
                /\ ~DiscardRaises(active_connections, tasks[t].session, tasks[t].bc))
               => /\ messages'[t].status = "completed"
                  /\ messages'[t].content = Deltas(Len(tasks[t].assistant_content))
       /\ message_count' # message_count => \E t \in DOMAIN tasks : DoneEvent(t)]_vars

\* a job has ended `completed` with its two deltas persisted and the
\* conversation counts two messages
C14_Witness ==
    \E t \in DOMAIN tasks :
        /\ tasks[t].pc = "done"
        /\ messages[t].status = "completed"
        /\ messages[t].content = Deltas(MaxChunks)
        /\ message_count[tasks[t].session] = 2

\* C15: the message of every started job is eventually no longer `streaming`
\* (the part of the claim about the persisted status; a subscriber can only
\* be told of a terminal outcome that is reached).
C15_EventuallyFinalized ==
    \A m \in 1..(2 * LiveInbound) :
        (m \in DOMAIN tasks) ~> (m \in DOMAIN tasks /\ messages[m].status # "streaming")

\* C16: on every subscriber map the service reaches, subscribing a connection
\* twice gives the map that subscribing it once gives, unsubscribing twice the
\* map that unsubscribing once gives, and unsubscribing a connection that is
\* not subscribed leaves the subscriber set of every conversation as it was.
\* (add_connection and remove_connection have no statement that can raise.)
C16_SubscribeIdempotent ==
    \A s \in Sessions : \A c \in Conns :
        LET once == add_connection(active_connections, s, c)
            gone == remove_connection(active_connections, s, c)
        IN /\ add_connection(once, s, c) = once
           /\ c \in Subscribers(once, s)
           /\ remove_connection(gone, s, c) = gone
           /\ c \notin Subscribers(gone, s)
           /\ c \notin Subscribers(active_connections, s)
              => \A s2 \in Sessions :
                    Subscribers(gone, s2) = Subscribers(active_connections, s2)

\* a conversation has one subscriber and the other connection is closed:
\* unsubscribing the closed one is the no-op of the claim
C16_Witness ==
    \E s \in Sessions : \E c1, c2 \in Conns :
        /\ c1 # c2
        /\ Subscribers(active_connections, s) = {c1}
        /\ ws[c1].pc = "receive"
        /\ ws[c2].pc = "closed"
        /\ messages # <<>>

\* the texts inside the tagged spans of txt, in order
RECURSIVE InsideAll(_, _)
InsideAll(txt, from) ==
    IF HasMatch(txt, from)
    THEN SubSeq(txt, MatchStart(txt, from) + 1, MatchEnd(txt, from) - 1)
            \o InsideAll(txt, MatchEnd(txt, from) + 1)
    ELSE <<>>

NoTag(txt) == \A i \in 1..Len(txt) : txt[i] \notin {OpenTag, CloseTag}

\* C17: for a delta without a reasoning_content field, a text with tagged
\* spans is emitted as the text without the spans and, as reasoning, the
\* text inside the tags; a text with no tag is emitted unchanged without
\* reasoning.  (Nothing has to be emitted when both would be empty.)
C17_InlineTagExtraction ==
    (adapter.pc = "yielded" /\ adapter.reasoning_content = <<>>)
    => LET txt == adapter.content
           ev  == adapter.event
       IN /\ HasMatch(txt, 1)
             => /\ ev.content = SubAll(txt, 1)
                /\ ev.thinking = InsideAll(txt, 1)
                /\ (SubAll(txt, 1) # <<>> \/ InsideAll(txt, 1) # <<>>) => ev.emitted
          /\ NoTag(txt)
             => /\ ev.content = txt
                /\ ev.thinking_none
                /\ txt # <<>> => ev.emitted

\* C18: every running job that was not cancelled is the job its conversation's
\* ownership record refers to, and a record refers to a job that has not
\* ended (or that a stop still in progress has cancelled and is about to
\* remove the record of).
C18_RecordIffRunningJob ==
    /\ \A t \in DOMAIN tasks :
          (Live(t) /\ ~tasks[t].must_cancel)
          => /\ tasks[t].session \in DOMAIN running_tasks
             /\ running_tasks[tasks[t].session] = t
    /\ \A s \in DOMAIN running_tasks :
          Live(running_tasks[s]) \/ stop[s].pc = "send_owned"

\* C19: the handling of an inbound message first persists the user message
\* as `completed` and the placeholder as `streaming` and then, past the send
\* of streaming_start, calls start: after that call the conversation has an
\* ownership record, its job is the placeholder's, and the handler receives
\* the next message.
C19_InboundStartsJob ==
    [][\A c \in Conns :
          /\ Inbound(c)
             => /\ Len(messages') = Len(messages) + 2
                /\ messages'[Len(messages) + 1].role = "user"
                /\ messages'[Len(messages) + 1].status = "completed"
                /\ messages'[ws'[c].placeholder].role = "assistant"
                /\ messages'[ws'[c].placeholder].status = "streaming"
                /\ ws'[c].pc = "send_start"
          /\ InboundStartCall(c)
             => /\ ws[c].session \in DOMAIN running_tasks'
                /\ running_tasks'[ws[c].session] = ws[c].placeholder
                /\ ws'[c].pc = "receive"]_vars

\* C20: a cancellation never ends a job in the middle of the broadcast of a
\* content event it has persisted, with subscribers of the broadcast's copy
\* that were not sent the event yet.
C20_CancelAfterWholeEvent ==
    [][\A t \in DOMAIN tasks :
          (WorkerCancelled(t) /\ tasks[t].pc = "send_content")
          => tasks[t].bc.todo = {}]_vars

\* C21: a content event whose write fails, retry included, ends the job: its
\* message is `interrupted` and the job handles no further event.
C21_WriteFailureIsFatal ==
    [][\A t \in DOMAIN tasks :
          ContentEvent(t, FALSE)
          => /\ messages'[t].status = "interrupted"
             /\ tasks'[t].pc = "done"]_vars

\* C22: a connect to a conversation without an ownership record, whose
\* `streaming` message is of a job the process death killed, sends no
\* streaming_resumed and leaves that message no longer `streaming`.
C22_ConnectReconcilesOrphan ==
    [][\A c \in Conns : \A s \in Sessions : \A m \in DOMAIN tasks :
          (/\ Connect(c, s)
           /\ s \notin DOMAIN running_tasks
           /\ tasks[m].pc = "killed"
           /\ messages[m].session = s
           /\ messages[m].status = "streaming")
          => /\ streaming_resumed(messages, s).message_id = 0
             /\ messages'[m].status # "streaming"]_vars

Terminal(ev) == ev.type \in {"done", "error"}

\* C23: the event sequence of every line stream ends with a terminal event
\* and has no terminal event before its last.
C23_OneTerminalEventLast ==
    adapter.pc = "exhausted"
    => LET evs == adapter.events
       IN /\ evs # <<>>
          /\ Terminal(evs[Len(evs)])
          /\ \A i \in 1..(Len(evs) - 1) : ~Terminal(evs[i])

Malformed(line) == line \in {DataInvalidJson, DataWrongShape, NoMarker}

WellFormed(line) == ~Malformed(line)

\* C24: the events of a line stream are the events of the stream without its
\* malformed bodies and its lines that lack the data marker, and a stream
\* that holds the terminal token ends with a done event.
C24_MalformedLinesAreSkipped ==
    adapter.pc = "exhausted"
    => /\ adapter.events =
             chat_stream(SelectSeq(adapter.lines, WellFormed), adapter.ending)
       /\ (\E i \in 1..Len(adapter.lines) : adapter.lines[i] = DataDone)
          => adapter.events[Len(adapter.events)] = DoneEv

\* what conversation b consists of: its subscribers, its ownership record,
\* its messages, its count and its jobs
Conversation(b) ==
    [subscribers |-> Subscribers(active_connections, b),
     record |-> IF b \in DOMAIN running_tasks THEN running_tasks[b] ELSE 0,
     rows |-> {<<m, messages[m]>> : m \in {i \in MsgIds : messages[i].session = b}},
     count |-> message_count[b],
     jobs |-> {<<t, tasks[t]>> : t \in {i \in DOMAIN tasks : tasks[i].session = b}}]

\* a step of conversation a: of a connection to it, of one of its jobs or of
\* a stop of it
OperationOn(a) ==
    \/ \E c \in Conns : Connect(c, a)
    \/ \E c \in Conns :
          /\ ws[c].session = a
          /\ Inbound(c) \/ InboundStartCall(c) \/ Disconnect(c) \/ Start(c)
    \/ \E t \in DOMAIN tasks :
          /\ tasks[t].session = a
          /\ WorkerScheduled(t) \/ UpstreamYields(t)
    \/ StopCall(a)
    \/ StopSend(a)

C26_ContentOnlyWhileStreaming ==
    [][/\ \A m \in MsgIds :
            messages[m].status # "streaming"
            => messages'[m].content = messages[m].content
       /\ \A t \in DOMAIN tasks : \A written \in BOOLEAN :
            ContentEvent(t, written) => messages[t].status = "streaming"]_vars

CompletedAssistant(s) ==
    {m \in MsgIds : /\ messages[m].session = s
                    /\ messages[m].role = "assistant"
                    /\ messages[m].status = "completed"}

\* C27: a conversation's message_count is twice the number of its assistant
\* messages that are `completed`.
C27_CountIsTwiceCompleted ==
    \A s \in Sessions : message_count[s] = 2 * Cardinality(CompletedAssistant(s))

\* C28: a connection opened while a job is streaming, and told of that job's
\* message by streaming_resumed, is sent as the event's content exactly the
\* deltas whose broadcast has already started without it (the deltas it will
\* not receive as content events); and every later content event is
\* broadcast to all the connections subscribed then, this one included.
C28_ResumedThenEvents ==
    [][/\ \A c \in Conns : \A s \in Sessions : \A t \in DOMAIN tasks :
            (/\ Connect(c, s)
             /\ tasks[t].session = s
             /\ Live(t)
             /\ ~tasks[t].must_cancel
             /\ messages[t].status = "streaming"
             /\ streaming_resumed(messages, s).message_id = t)
            => streaming_resumed(messages, s).content = tasks[t].broadcast_log
       /\ \A t \in DOMAIN tasks : \A written \in BOOLEAN :
            (ContentEvent(t, written) /\ tasks'[t].pc = "send_content")
            => tasks'[t].bc.snapshot = Subscribers(active_connections, tasks[t].session)]_vars

\* C29: the connection of a handler that has ended is in no subscriber set.
C29_EndedHandlerUnsubscribed ==
    \A c \in Conns :
        ws[c].pc = "closed"
        => \A s \in Sessions : c \notin Subscribers(active_connections, s)

\* C30: the history handed to start holds no message twice, not the
\* `streaming` placeholder, and the new user message as its last entry.
C30_HistoryHasEachMessageOnce ==
    [][\A c \in Conns :
          (Start(c) \/ InboundStartCall(c))
          => LET u == ws[c].placeholder - 1
                 h == message_history(messages, ws[c].session, u)
             IN /\ \A i, j \in 1..Len(h) : h[i].row = h[j].row => i = j
                /\ \A i \in 1..Len(h) : h[i].row # ws[c].placeholder
                /\ h[Len(h)].row = u]_vars
====
